---- MODULE Spec2Model ----
(***************************************************************************)
(* Model of src/main.py: the text-message handler process_tweet of the     *)
(* bot, with the calls it makes to the link resolver, the extraction       *)
(* service, the media hosts and the chat platform.  Every blocking call is *)
(* one step of the handler; its outcome (success or the exception raised)  *)
(* is chosen by the environment.  Handlers run in worker threads           *)
(* (run_async=True) and share only bot_data.                               *)
(***************************************************************************)
EXTENDS Integers, Sequences, FiniteSets, TLC

\* ------------------------------------------------------------------ bounds
\* worker threads of the dispatcher that may run process_tweet at once
NumHandlers == 2
\* most references in one message
MaxRefs == 2
\* most items in one media_extended list
MaxMedia == 2
\* most items in a media_extended list while several handlers run at once
AsyncMedia == 1
\* most words in a text given to extract_tweet_ids alone
MaxWords == 3

\* --------------------------------------------------- platform constants
\* telegram.constants.MAX_FILESIZE_DOWNLOAD and MAX_FILESIZE_UPLOAD (bytes)
MAX_FILESIZE_DOWNLOAD == 20000000
MAX_FILESIZE_UPLOAD == 50000000

Handlers == 1..NumHandlers

\* ------------------------------------------------------------------ data
\* A URL is its path (here a number: the items of one list have different
\* paths) and its query string.
NoUrl == [path |-> 0, query |-> ""]
UrlAt(i) == [path |-> i, query |-> IF i % 2 = 1 THEN "name=small" ELSE ""]

\* the kinds of item the extraction service lists; only the first three are
\* looked at
MediaTypes == {"image", "gif", "video", "audio"}

\* the media_extended lists of at most n items: {"type": ..., "url": ...}
MediaLists(n) ==
    UNION { { [i \in 1..k |-> [type |-> t[i], url |-> UrlAt(i)]] :
                t \in [1..k -> MediaTypes] } : k \in 0..n }

\* Content-Length values a media host may answer with
VideoSizes ==
    { 1, MAX_FILESIZE_DOWNLOAD, MAX_FILESIZE_DOWNLOAD + 1,
      MAX_FILESIZE_UPLOAD, MAX_FILESIZE_UPLOAD + 1 }

\* words of a message text: a post link under a host, a t.co short link,
\* or any other word
Link(host, id) == [kind |-> "link", host |-> host, id |-> id]
ShortLink == [kind |-> "short", host |-> "t.co", id |-> 0]
Word == [kind |-> "word", host |-> "", id |-> 0]
Unresolved == [kind |-> "fail", host |-> "", id |-> 0]

\* the texts of the messages handled: no link, a short link, and 1..MaxRefs
\* different posts
MessageTexts ==
    { <<Word>>, <<ShortLink>> }
    \cup { [i \in 1..k |-> Link("x.com", i)] : k \in 1..MaxRefs }

\* what a t.co link may resolve to (requests.get(...).url), or "fail"
Destinations == { Link("twitter.com", 1), Link("x.com", 2), Word }

\* the texts given to extract_tweet_ids alone: up to MaxWords words, each a
\* post link under one of the two hosts, a t.co link or another word
ExtractWords ==
    { Link("twitter.com", 1), Link("x.com", 1), Link("x.com", 2), ShortLink,
      Word }
ExtractTexts == UNION { [1..k -> ExtractWords] : k \in 1..MaxWords }

\* the og:description contents an error page of the extraction service may
\* carry, as written in the page (character references not yet decoded)
PageMessages == { <<"Rate limited">>, <<"&quot;", "Rate limited", "&quot;">> }

\* the bodies the extraction service answers with: a JSON object with or
\* without 'media_extended', or an HTML page with or without the
\* og:description tag
Bodies(n) ==
    { [kind |-> "json", has_key |-> TRUE, media |-> m, tag |-> <<>>] :
        m \in MediaLists(n) }
    \cup { [kind |-> "json", has_key |-> FALSE, media |-> <<>>, tag |-> <<>>],
           [kind |-> "html", has_key |-> FALSE, media |-> <<>>, tag |-> <<>>] }
    \cup { [kind |-> "html", has_key |-> FALSE, media |-> <<>>, tag |-> msg] :
             msg \in PageMessages }

\* HTTP status codes of the answers
Statuses == {200, 404}

\* the bodies sent with an error status: a page with or without the tag, or
\* a JSON object like that of a good answer
ErrorBodies ==
    { b \in Bodies(0) : b.kind = "html" => Len(b.tag) <= 1 }

Responses(n) ==
    { [status |-> st, body |-> b] :
        st \in Statuses, b \in Bodies(n) } \
    { [status |-> st, body |-> b] :
        st \in Statuses \ {200}, b \in Bodies(n) \ ErrorBodies }

\* requests.get raised: there is no response
NoResponse ==
    [status |-> 0,
     body |-> [kind |-> "none", has_key |-> FALSE, media |-> <<>>,
               tag |-> <<>>]]

\* ------------------------------------------------------------ pure parts
RECURSIVE Dedupe_keep_last(_)
\* each element once, at its last occurrence
Dedupe_keep_last(s) ==
    IF s = <<>> THEN <<>>
    ELSE LET rest == Dedupe_keep_last(Tail(s))
         IN IF \E i \in 1..Len(rest) : rest[i] = Head(s)
            THEN rest ELSE <<Head(s)>> \o rest

RECURSIVE Dedupe(_)
\* list(dict.fromkeys(s)): each element once, at its first occurrence
Dedupe(s) ==
    IF s = <<>> THEN <<>>
    ELSE LET front == Dedupe(SubSeq(s, 1, Len(s) - 1))
             last == s[Len(s)]
         IN IF \E i \in 1..Len(front) : front[i] = last
            THEN front ELSE Append(front, last)

IsLink(w) == w.kind = "link" /\ w.host \in {"twitter.com", "x.com"}
IsShort(w) == w.kind = "short"

RECURSIVE IdsOf(_)
\* re.findall of the status pattern: the captured ids, in text order
IdsOf(t) ==
    IF t = <<>> THEN <<>>
    ELSE IF IsLink(Head(t)) THEN <<Head(t).id>> \o IdsOf(Tail(t))
         ELSE IdsOf(Tail(t))

\* the text extended by the destinations of the short links that resolved
\* (resolved: one entry per resolved link, in order)
extract_tweet_ids(t, resolved) == Dedupe(IdsOf(t \o resolved))

\* parsed_url._replace(query='format=jpg&name=orig').geturl()
new_url(u) == [u EXCEPT !.query = "format=jpg&name=orig"]

\* html.unescape: the character references of the text are replaced by the
\* characters they name
unescape(msg) ==
    [i \in 1..Len(msg) |->
        CASE msg[i] = "&quot;" -> "\""
          [] msg[i] = "&amp;" -> "&"
          [] OTHER -> msg[i]]

\* Response.raise_for_status: HTTPError for a 4xx or 5xx status
raise_for_status(status) == status >= 400 /\ status < 600

\* scrape_media, lines 54-61, for a response: the exception raised ("none":
\* it returns), the list returned and the message of the exception
scrape_media_result(r) ==
    IF raise_for_status(r.status)
    THEN [raised |-> "HTTPError", media |-> <<>>, message |-> <<>>]
    ELSE IF r.body.kind = "json"
    THEN IF r.body.has_key
         THEN [raised |-> "none", media |-> r.body.media, message |-> <<>>]
         ELSE [raised |-> "KeyError", media |-> <<>>, message |-> <<>>]
    ELSE IF r.body.tag # <<>>
    THEN [raised |-> "APIException", media |-> <<>>,
          message |-> <<"API returned error: ">> \o unescape(r.body.tag)]
    ELSE [raised |-> "JSONDecodeError", media |-> <<>>, message |-> <<>>]

OfType(m, ty) == SelectSeq(m, LAMBDA x : x.type = ty)
photos(m) == OfType(m, "image")
gifs(m) == OfType(m, "gif")
videos(m) == OfType(m, "video")

\* ----------------------------------------------------------------- state
VARIABLES
    pc,           \* where each handler stands in process_tweet
    text,         \* update.effective_message.text of the message it handles
    tweet_ids,    \* the ids extract_tweet_ids returned (<<>>: None)
    ri,           \* position of the for loop of process_tweet in tweet_ids
    tweet_media,  \* the media list of the current reference
    photo_group,  \* reply_photos: the group built so far
    idx,          \* position of the running loop over photos, gifs or videos
    video_size,   \* reply_videos: the Content-Length read for the video
    open_files,   \* reply_videos: temporary files of the handler that are open
    exc,          \* the exception on its way to the except clauses of process_tweet
    tmp,          \* the counter value read by a += that has not stored yet
    bot_data,     \* context.bot_data: whether 'stats' exists, and its count
    media_limit,  \* longest media list the extraction service answers with
    log,          \* the calls made for the current reference, with results
                  \* (those of a finished video as one entry)
    fetched,      \* positions of tweet_ids whose metadata fetch was attempted
    delivered,    \* items of the message a successful send has carried
    added,        \* sum of the increments each handler has stored
    base,         \* the count the process started with
    response,     \* the answer of the extraction service for the current reference
    li,           \* extract_tweet_ids: position of its loop in the t.co links
    unshortened_links,  \* extract_tweet_ids: the destinations appended so far
    resolution    \* what each t.co link of the message resolved to, in order

vars ==
    << pc, text, tweet_ids, ri, tweet_media, photo_group, idx, video_size,
       open_files, exc, tmp, bot_data, media_limit, log, fetched, delivered, added,
       base, response, li, unshortened_links, resolution >>

Entry(c, i, a, u, r, m) ==
    [call |-> c, item |-> i, arg |-> a, url |-> u, result |-> r, media |-> m]

\* a persisted store holds a count; a fresh one (no 'bot_data' file yet, or
\* one never written by a version that kept statistics) has no 'stats' entry
InitialStores ==
    { [has_stats |-> FALSE, media_downloaded |-> 0],
      [has_stats |-> TRUE, media_downloaded |-> 5] }

InitLocals ==
    /\ tweet_ids = [h \in Handlers |-> <<>>]
    /\ ri = [h \in Handlers |-> 0]
    /\ tweet_media = [h \in Handlers |-> <<>>]
    /\ photo_group = [h \in Handlers |-> <<>>]
    /\ idx = [h \in Handlers |-> 0]
    /\ video_size = [h \in Handlers |-> 0]
    /\ open_files = [h \in Handlers |-> 0]
    /\ exc = [h \in Handlers |-> "none"]
    /\ tmp = [h \in Handlers |-> 0]
    /\ log = [h \in Handlers |-> <<>>]
    /\ fetched = [h \in Handlers |-> <<>>]
    /\ delivered = [h \in Handlers |-> 0]
    /\ added = [h \in Handlers |-> 0]
    /\ bot_data \in InitialStores
    /\ base = bot_data.media_downloaded
    /\ response = [h \in Handlers |-> NoResponse]
    /\ li = [h \in Handlers |-> 0]
    /\ unshortened_links = [h \in Handlers |-> <<>>]
    /\ resolution = [h \in Handlers |-> <<>>]

\* one message is handled, by the first worker
Init ==
    /\ InitLocals
    /\ pc = [h \in Handlers |-> IF h = 1 THEN "start" ELSE "idle"]
    /\ \E t \in MessageTexts :
          text = [h \in Handlers |-> IF h = 1 THEN t ELSE <<>>]
    /\ media_limit = MaxMedia

\* every worker handles a message of its own (a t.co link), at the same time
InitAsync ==
    /\ InitLocals
    /\ pc = [h \in Handlers |-> "start"]
    /\ text = [h \in Handlers |-> <<ShortLink>>]
    /\ media_limit = AsyncMedia

\* one message of any text is handled, by the first worker
InitExtract ==
    /\ InitLocals
    /\ pc = [h \in Handlers |-> IF h = 1 THEN "start" ELSE "idle"]
    /\ \E t \in ExtractTexts :
          text = [h \in Handlers |-> IF h = 1 THEN t ELSE <<>>]
    /\ media_limit = MaxMedia

\* -------------------------------------------------------- control flow
Goto(h, p) == pc' = [pc EXCEPT ![h] = p]
Logged(h, e) == log' = [log EXCEPT ![h] = Append(@, e)]

\* an exception leaves the try body of process_tweet (lines 248-252)
Raise(h, e) ==
    /\ pc' = [pc EXCEPT ![h] = "except"]
    /\ exc' = [exc EXCEPT ![h] = e]

\* the body of the for loop of process_tweet has ended for the current id
NextRef(h) ==
    /\ pc' = [pc EXCEPT ![h] = "loop"]
    /\ ri' = ri

\* reply_media after its photo branch: "if gifs: ... elif videos: ..."
after_photos(m) ==
    IF gifs(m) # <<>> THEN "gif_send"
    ELSE IF videos(m) # <<>> THEN "video_probe"
    ELSE "return"

\* "if videos:" in the place of "elif videos:"
after_gifs_if(m) == IF videos(m) # <<>> THEN "video_probe" ELSE "return"

\* reply_media after reply_gifs returned
after_gifs(m) == "return"

\* the photo branch moved behind the other two
reply_media_start_photos_last(m) == after_photos(m)

\* reply_media from its first branch: "if photos: reply_photos(...)"
reply_media_start(m) ==
    IF photos(m) # <<>> THEN "photo_probe" ELSE after_photos(m)

\* the videos left out of the value returned: bool(photos or gifs)
supported_without_videos(m) == photos(m) # <<>> \/ gifs(m) # <<>>

\* the kinds reply_media reports as supported: bool(photos or gifs or videos)
supported(m) == photos(m) # <<>> \/ gifs(m) # <<>> \/ videos(m) # <<>>

\* "<" in the place of "<=" at both limits
DeliveryPlanner_exclusive(size) ==
    IF size < MAX_FILESIZE_DOWNLOAD THEN "video_url"
    ELSE IF size < MAX_FILESIZE_UPLOAD THEN "video_notice"
    ELSE "video_link"

\* the else branch of line 135 left out: what is not sent by URL is uploaded
DeliveryPlanner_no_link(size) ==
    IF size <= MAX_FILESIZE_DOWNLOAD THEN "video_url" ELSE "video_notice"

\* reply_videos, line 113 and 117: the branch taken for a Content-Length
DeliveryPlanner(size) ==
    IF size <= MAX_FILESIZE_DOWNLOAD THEN "video_url"
    ELSE IF size <= MAX_FILESIZE_UPLOAD THEN "video_notice"
    ELSE "video_link"

\* reply_videos, line 138: the exceptions its except clause catches
Caught == {"HTTPError", "KeyError", "BadRequest", "ConnectionError"}

\* a close() as the last statement of the block in the place of "with"
with_exit_close_last(n, raised) == IF raised THEN n ELSE n - 1

\* the with statement of line 124 on leaving its block, by its end or by an
\* exception: the file is closed
with_exit(n, raised) == n - 1

\* the upload written before the download loop
reupload_next_upload_first(p) ==
    CASE p = "video_notice" -> "video_open"
      [] p = "video_open" -> "video_upload"
      [] p = "video_upload" -> "video_download"
      [] p = "video_download" -> "video_delete"
      [] OTHER -> "video_count"

\* the order of the statements of the upload branch, lines 120-133
reupload_next(p) ==
    CASE p = "video_notice" -> "video_open"
      [] p = "video_open" -> "video_download"
      [] p = "video_download" -> "video_upload"
      [] p = "video_upload" -> "video_delete"
      [] OTHER -> "video_count"

\* a try around the send that logs the error and lets the loop go on
gif_failed_swallowed(e) == "gif_count"

\* reply_gifs: where a reply_animation that raised goes (no try in the loop)
gif_failed(e) == "except"

\* where an exception raised in the try body of reply_videos goes
video_failed(e) == IF e \in Caught THEN "video_fallback" ELSE "except"

\* a step of the handler to p that may be the except clause of process_tweet
Route(h, p, e) ==
    /\ pc' = [pc EXCEPT ![h] = p]
    /\ exc' = [exc EXCEPT ![h] = IF p = "except" THEN e ELSE @]

\* enter the branch p of reply_media, or return from it
Enter(h, p) ==
    IF p = "return"
    THEN NextRef(h) /\ idx' = idx
    ELSE /\ pc' = [pc EXCEPT ![h] = p]
         /\ ri' = ri
         /\ idx' = [idx EXCEPT ![h] = 1]

\* the current item of the running loop
Photo(h) == photos(tweet_media[h])[idx[h]]
Gif(h) == gifs(tweet_media[h])[idx[h]]
Video(h) == videos(tweet_media[h])[idx[h]]

\* a send that succeeded has carried the current video, or its URL
Carried(h) ==
    \E k \in 1..Len(log[h]) :
        /\ log[h][k].item = idx[h]
        /\ log[h][k].arg \in {"url", "file_streaming", "too_large",
                             "fallback"}
        /\ log[h][k].result = "ok"

\* the calls reply_videos makes for a video
IsVideoCall(e) ==
    \/ e.call \in {"TemporaryFile", "iter_content", "delete", "reply_video"}
    \/ e.arg \in {"stream", "notice", "too_large", "fallback"}

\* the log when the loop of reply_videos goes on to its next video: the calls
\* of the finished video i are kept as one entry saying how it ended
Fold(l, i, u) ==
    LET mine(e) == IsVideoCall(e) /\ e.item = i
        how == IF \E k \in 1..Len(l) : mine(l[k]) /\ l[k].arg = "fallback"
               THEN "fallback" ELSE "sent"
    IN Append(SelectSeq(l, LAMBDA e : ~mine(e)),
              Entry("video", i, how, u, "ok", <<>>))

Deliver(h, n) == delivered' = [delivered EXCEPT ![h] = @ + n]

\* --------------------------------------------------------------- actions
\* the t.co links of a text, in order: re.findall of line 39
short_links(t) == SelectSeq(t, IsShort)

\* process_tweet, line 238, and extract_tweet_ids, lines 35-39: the text is
\* read and the loop over its t.co links begins
process_tweet_start(h) ==
    /\ pc[h] = "start"
    /\ Goto(h, "resolve")
    /\ li' = [li EXCEPT ![h] = 1]
    /\ unshortened_links' = [unshortened_links EXCEPT ![h] = <<>>]
    /\ resolution' = [resolution EXCEPT ![h] = <<>>]
    /\ UNCHANGED << text, tweet_ids, ri, tweet_media, photo_group, idx,
                    video_size, open_files, exc, tmp, bot_data, media_limit,
                    log, fetched, delivered, added, base, response >>

\* a break out of the loop in the except clause
on_unresolved_break(i, n) == n + 1

\* extract_tweet_ids, lines 44-45: the position of the loop after a link that
\* could not be resolved (the bare except logs, and the loop goes on)
on_unresolved(i, n) == i + 1

\* extract_tweet_ids, lines 40-45: one t.co link is requested; its
\* destination is appended, or the request raised and the link is skipped
extract_resolve(h) ==
    /\ pc[h] = "resolve"
    /\ li[h] <= Len(short_links(text[h]))
    /\ \E d \in Destinations \cup {Unresolved} :
         /\ resolution' = [resolution EXCEPT ![h] = Append(@, d)]
         /\ IF d = Unresolved
            THEN /\ li' = [li EXCEPT ![h] =
                             on_unresolved(@, Len(short_links(text[h])))]
                 /\ unshortened_links' = unshortened_links
            ELSE /\ li' = [li EXCEPT ![h] = @ + 1]
                 /\ unshortened_links' =
                       [unshortened_links EXCEPT ![h] = Append(@, d)]
    /\ UNCHANGED << pc, text, tweet_ids, ri, tweet_media, photo_group, idx,
                    video_size, open_files, exc, tmp, bot_data, media_limit,
                    log, fetched, delivered, added, base, response >>

\* "return tweet_ids": the empty list is not None, and the for loop runs over
\* it
after_extract_empty_list(ids) == IF ids = <<>> THEN "loop" ELSE "fetch"

\* extract_tweet_ids, line 50, and process_tweet, line 239: "tweet_ids or
\* None", and where "if tweet_ids is None" goes
after_extract(ids) == IF ids = <<>> THEN "no_ids" ELSE "fetch"

\* extract_tweet_ids, lines 48-50, and process_tweet, line 239: the ids are
\* parsed from the text and the destinations, and the handler branches
extract_parse(h) ==
    /\ pc[h] = "resolve"
    /\ li[h] > Len(short_links(text[h]))
    /\ LET ids == extract_tweet_ids(text[h], unshortened_links[h])
       IN /\ tweet_ids' = [tweet_ids EXCEPT ![h] = ids]
          /\ Goto(h, after_extract(ids))
          /\ ri' = [ri EXCEPT ![h] = IF ids = <<>> THEN @ ELSE 1]
    /\ li' = [li EXCEPT ![h] = 0]
    /\ unshortened_links' = [unshortened_links EXCEPT ![h] = <<>>]
    /\ UNCHANGED << text, tweet_media, photo_group, idx, video_size,
                    open_files, exc, tmp, bot_data, media_limit, log,
                    fetched, delivered, added, base, response, resolution >>

\* process_tweet, lines 240-241: the reply for a message without ids
reply_no_ids(h) ==
    /\ pc[h] = "no_ids"
    /\ \E r \in {"ok", "TelegramError"} :
         /\ Logged(h, Entry("reply_text", 0, "no_ids", NoUrl, r, <<>>))
         /\ Goto(h, IF r = "ok" THEN "done" ELSE "crashed")
    /\ UNCHANGED << text, tweet_ids, ri, tweet_media, photo_group, idx,
                    video_size, open_files, exc, tmp, bot_data, media_limit,
                    fetched, delivered, added, base, response,
                    li, unshortened_links, resolution >>

\* what scrape_media raises: requests.get fails, raise_for_status, the
\* og:description page, a body that is no JSON, a JSON without the key
FetchErrors ==
    {"ConnectionError", "HTTPError", "APIException", "JSONDecodeError",
     "KeyError"}

\* process_tweet, lines 245-246: scrape_media (lines 53-61) on the answer of
\* the extraction service, then the partition and the first branch of
\* reply_media (lines 65-74)
scrape_media(h) ==
    /\ pc[h] = "fetch"
    /\ fetched' = [fetched EXCEPT ![h] = Append(@, ri[h])]
    /\ \/ \E e \in FetchErrors, r \in Responses(media_limit) \cup {NoResponse} :
            /\ IF r = NoResponse THEN e = "ConnectionError"
               ELSE scrape_media_result(r).raised = e
            /\ response' = [response EXCEPT ![h] = r]
            /\ log' = [log EXCEPT ![h] =
                         << Entry("get", ri[h], "status", NoUrl, e, <<>>) >>]
            /\ Raise(h, e)
            /\ tweet_media' = [tweet_media EXCEPT ![h] = <<>>]
            /\ idx' = [idx EXCEPT ![h] = 0]
            /\ ri' = ri
       \/ \E r \in Responses(media_limit) :
            LET m == scrape_media_result(r).media
            IN /\ scrape_media_result(r).raised = "none"
               /\ response' = [response EXCEPT ![h] = r]
               /\ log' = [log EXCEPT ![h] =
                            << Entry("get", ri[h], "status", NoUrl, "ok",
                                     <<>>) >>]
               /\ tweet_media' = [tweet_media EXCEPT ![h] = m]
               /\ exc' = exc
               /\ IF supported(m)
                  THEN Enter(h, reply_media_start(m))
                  ELSE Goto(h, "no_media") /\ ri' = ri
                       /\ idx' = [idx EXCEPT ![h] = 0]
    /\ UNCHANGED << text, tweet_ids, photo_group, video_size, open_files,
                    tmp, bot_data, media_limit, delivered, added, base, li,
                    unshortened_links, resolution >>

\* process_tweet, line 243: the for loop takes the next id, or ends; the
\* locals of the calls made for the last id are gone
process_tweet_loop(h) ==
    /\ pc[h] = "loop"
    /\ IF ri[h] < Len(tweet_ids[h])
       THEN /\ Goto(h, "fetch")
            /\ ri' = [ri EXCEPT ![h] = @ + 1]
            /\ tweet_media' = [tweet_media EXCEPT ![h] = <<>>]
            /\ photo_group' = [photo_group EXCEPT ![h] = <<>>]
            /\ idx' = [idx EXCEPT ![h] = 0]
            /\ video_size' = [video_size EXCEPT ![h] = 0]
            /\ log' = [log EXCEPT ![h] = <<>>]
            /\ response' = [response EXCEPT ![h] = NoResponse]
       ELSE /\ Goto(h, "done")
            /\ UNCHANGED << ri, tweet_media, photo_group, idx, video_size,
                            log, response >>
    /\ UNCHANGED << text, tweet_ids, open_files, exc, tmp, bot_data,
                    media_limit, fetched, delivered, added, base, li,
                    unshortened_links, resolution >>

\* reply_photos, lines 79-92: one photo of the loop, with its quality probe
reply_photos_probe(h) ==
    /\ pc[h] = "photo_probe"
    /\ \E r \in {"ok", "HTTPError", "ConnectionError"} :
         /\ Logged(h, Entry("head", idx[h], "orig", new_url(Photo(h).url),
                            r, <<>>))
         /\ IF r = "ConnectionError"
            THEN Raise(h, r) /\ UNCHANGED << photo_group, idx >>
            ELSE /\ photo_group' = [photo_group EXCEPT ![h] =
                       Append(@, IF r = "ok" THEN new_url(Photo(h).url)
                                 ELSE Photo(h).url)]
                 /\ exc' = exc
                 /\ IF idx[h] < Len(photos(tweet_media[h]))
                    THEN idx' = [idx EXCEPT ![h] = @ + 1] /\ pc' = pc
                    ELSE idx' = idx /\ Goto(h, "photo_send")
    /\ UNCHANGED << text, tweet_ids, ri, tweet_media, video_size, open_files,
                    tmp, bot_data, media_limit, fetched, delivered, added,
                    base, response, li, unshortened_links, resolution >>

\* reply_photos, line 93: the grouped send
reply_photos_send(h) ==
    /\ pc[h] = "photo_send"
    /\ \E r \in {"ok", "TelegramError"} :
         /\ Logged(h, Entry("reply_media_group", 0, "", NoUrl, r,
                            photo_group[h]))
         /\ Route(h, IF r = "ok" THEN "photo_count" ELSE "except", r)
         /\ Deliver(h, IF r = "ok" THEN Len(photo_group[h]) ELSE 0)
    /\ UNCHANGED << text, tweet_ids, ri, tweet_media, photo_group, idx,
                    video_size, open_files, tmp, bot_data, media_limit,
                    fetched, added, base, response,
                    li, unshortened_links, resolution >>

\* reply_gifs, lines 100-102: one animation of the loop
reply_gifs_send(h) ==
    /\ pc[h] = "gif_send"
    /\ \E r \in {"ok", "TelegramError"} :
         /\ Logged(h, Entry("reply_animation", idx[h], "", Gif(h).url, r,
                            <<>>))
         /\ Route(h, IF r = "ok" THEN "gif_count" ELSE gif_failed(r), r)
         /\ Deliver(h, IF r = "ok" THEN 1 ELSE 0)
    /\ UNCHANGED << text, tweet_ids, ri, tweet_media, photo_group, idx,
                    video_size, open_files, tmp, bot_data, media_limit,
                    fetched, added, base, response,
                    li, unshortened_links, resolution >>

\* what the streaming GET of line 111-113 raises: requests.get fails, another
\* requests error, raise_for_status, no Content-Length, a Content-Length that
\* is no number
ProbeErrors ==
    {"ConnectionError", "RequestException", "HTTPError", "KeyError",
     "ValueError"}

\* reply_videos, lines 109-113 and 117: the size request and the branch
reply_videos_probe(h) ==
    /\ pc[h] = "video_probe"
    /\ \/ \E e \in ProbeErrors :
            /\ Logged(h, Entry("get", idx[h], "stream", Video(h).url, e, <<>>))
            /\ Route(h, video_failed(e), e)
            /\ video_size' = video_size
       \/ \E size \in VideoSizes :
            /\ Logged(h, Entry("get", idx[h], "stream", Video(h).url, "ok",
                               <<>>))
            /\ video_size' = [video_size EXCEPT ![h] = size]
            /\ Route(h, DeliveryPlanner(size), "none")
    /\ UNCHANGED << text, tweet_ids, ri, tweet_media, photo_group, idx,
                    open_files, tmp, bot_data, media_limit, fetched,
                    delivered, added, base, response,
                    li, unshortened_links, resolution >>

\* reply_videos, line 115: the video sent by its URL
reply_videos_url(h) ==
    /\ pc[h] = "video_url"
    /\ \E r \in {"ok", "BadRequest", "TelegramError"} :
         /\ Logged(h, Entry("reply_video", idx[h], "url", Video(h).url, r,
                            <<>>))
         /\ Route(h, IF r = "ok" THEN "video_count" ELSE video_failed(r), r)
         /\ Deliver(h, IF r = "ok" THEN 1 ELSE 0)
    /\ UNCHANGED << text, tweet_ids, ri, tweet_media, photo_group, idx,
                    video_size, open_files, tmp, bot_data, media_limit,
                    fetched, added, base, response,
                    li, unshortened_links, resolution >>

\* reply_videos, lines 120-123: the interim notice
reply_videos_notice(h) ==
    /\ pc[h] = "video_notice"
    /\ \E r \in {"ok", "BadRequest", "TelegramError"} :
         /\ Logged(h, Entry("reply_text", idx[h], "notice", NoUrl, r, <<>>))
         /\ Route(h, IF r = "ok" THEN reupload_next(pc[h])
                     ELSE video_failed(r), r)
    /\ UNCHANGED << text, tweet_ids, ri, tweet_media, photo_group, idx,
                    video_size, open_files, tmp, bot_data, media_limit,
                    fetched, delivered, added, base, response,
                    li, unshortened_links, resolution >>

\* reply_videos, line 124: the temporary file is opened
reply_videos_open(h) ==
    /\ pc[h] = "video_open"
    /\ Logged(h, Entry("TemporaryFile", idx[h], "", NoUrl, "ok", <<>>))
    /\ open_files' = [open_files EXCEPT ![h] = @ + 1]
    /\ Goto(h, reupload_next(pc[h]))
    /\ UNCHANGED << text, tweet_ids, ri, tweet_media, photo_group, idx,
                    video_size, exc, tmp, bot_data, media_limit, fetched,
                    delivered, added, base, response,
                    li, unshortened_links, resolution >>

\* reply_videos, lines 127-130: the body is read into the file
reply_videos_download(h) ==
    /\ pc[h] = "video_download"
    /\ \E r \in {"ok", "ConnectionError", "ChunkedEncodingError"} :
         /\ Logged(h, Entry("iter_content", idx[h], "", Video(h).url, r,
                            <<>>))
         /\ Route(h, IF r = "ok" THEN reupload_next(pc[h])
                     ELSE video_failed(r), r)
         /\ open_files' = IF r = "ok" THEN open_files
                          ELSE [open_files EXCEPT ![h] = with_exit(@, TRUE)]
    /\ UNCHANGED << text, tweet_ids, ri, tweet_media, photo_group, idx,
                    video_size, tmp, bot_data, media_limit, fetched,
                    delivered, added, base, response,
                    li, unshortened_links, resolution >>

\* reply_videos, lines 131-132: the file is uploaded, and the with block left
reply_videos_upload(h) ==
    /\ pc[h] = "video_upload"
    /\ \E r \in {"ok", "BadRequest", "TelegramError"} :
         /\ Logged(h, Entry("reply_video", idx[h], "file_streaming", NoUrl, r,
                            <<>>))
         /\ Route(h, IF r = "ok" THEN reupload_next(pc[h])
                     ELSE video_failed(r), r)
         /\ open_files' = [open_files EXCEPT ![h] = with_exit(@, r # "ok")]
         /\ Deliver(h, IF r = "ok" THEN 1 ELSE 0)
    /\ UNCHANGED << text, tweet_ids, ri, tweet_media, photo_group, idx,
                    video_size, tmp, bot_data, media_limit, fetched, added,
                    base, response, li, unshortened_links, resolution >>

\* reply_videos, line 133: the interim notice is deleted
reply_videos_delete(h) ==
    /\ pc[h] = "video_delete"
    /\ \E r \in {"ok", "BadRequest", "TelegramError"} :
         /\ Logged(h, Entry("delete", idx[h], "message", NoUrl, r, <<>>))
         /\ Route(h, IF r = "ok" THEN reupload_next(pc[h])
                     ELSE video_failed(r), r)
    /\ UNCHANGED << text, tweet_ids, ri, tweet_media, photo_group, idx,
                    video_size, open_files, tmp, bot_data, media_limit,
                    fetched, delivered, added, base, response,
                    li, unshortened_links, resolution >>

\* reply_videos, lines 136-137: the link of a video too large to upload
reply_videos_link(h) ==
    /\ pc[h] = "video_link"
    /\ \E r \in {"ok", "BadRequest", "TelegramError"} :
         /\ Logged(h, Entry("reply_text", idx[h], "too_large", Video(h).url,
                            r, <<>>))
         /\ Route(h, IF r = "ok" THEN "video_count" ELSE video_failed(r), r)
         /\ Deliver(h, IF r = "ok" THEN 1 ELSE 0)
    /\ UNCHANGED << text, tweet_ids, ri, tweet_media, photo_group, idx,
                    video_size, open_files, tmp, bot_data, media_limit,
                    fetched, added, base, response,
                    li, unshortened_links, resolution >>

\* reply_videos, lines 138-142: the except clause sends the direct link; what
\* this reply raises is raised by reply_videos
reply_videos_fallback(h) ==
    /\ pc[h] = "video_fallback"
    /\ \E r \in {"ok", "TelegramError"} :
         /\ Logged(h, Entry("reply_text", idx[h], "fallback", Video(h).url,
                            r, <<>>))
         /\ Route(h, IF r = "ok" THEN "video_count" ELSE "except", r)
         /\ Deliver(h, IF r = "ok" /\ ~Carried(h) THEN 1 ELSE 0)
    /\ UNCHANGED << text, tweet_ids, ri, tweet_media, photo_group, idx,
                    video_size, open_files, tmp, bot_data, media_limit,
                    fetched, added, base, response,
                    li, unshortened_links, resolution >>

\* the three statements "bot_data['stats']['media_downloaded'] += n"
CountAt == {"photo_count", "gif_count", "video_count"}
StoreAt == {"photo_store", "gif_store", "video_store"}

\* lines 95, 104, 143, first half: bot_data['stats'] is looked up and the
\* count is read
counter_read(h) ==
    /\ pc[h] \in CountAt
    /\ IF bot_data.has_stats
       THEN /\ tmp' = [tmp EXCEPT ![h] = bot_data.media_downloaded]
            /\ Goto(h, CASE pc[h] = "photo_count" -> "photo_store"
                         [] pc[h] = "gif_count" -> "gif_store"
                         [] OTHER -> "video_store")
            /\ exc' = exc
       ELSE Raise(h, "KeyError") /\ tmp' = tmp
    /\ UNCHANGED << text, tweet_ids, ri, tweet_media, photo_group, idx,
                    video_size, open_files, bot_data, media_limit, log,
                    fetched, delivered, added, base, response,
                    li, unshortened_links, resolution >>

\* the amount of the += at each of the three places
Amount(h) == IF pc[h] = "photo_store" THEN Len(photo_group[h]) ELSE 1

\* lines 95, 104, 143, second half: the sum is stored; then the loop of
\* reply_gifs or reply_videos goes on, or reply_media does
counter_store(h) ==
    /\ pc[h] \in StoreAt
    /\ bot_data' = [bot_data EXCEPT !.media_downloaded = tmp[h] + Amount(h)]
    /\ added' = [added EXCEPT ![h] = @ + Amount(h)]
    /\ CASE pc[h] = "photo_store" -> Enter(h, after_photos(tweet_media[h]))
         [] pc[h] = "gif_store" ->
              IF idx[h] < Len(gifs(tweet_media[h]))
              THEN /\ Goto(h, "gif_send")
                   /\ idx' = [idx EXCEPT ![h] = @ + 1]
                   /\ ri' = ri
              ELSE Enter(h, after_gifs(tweet_media[h]))
         [] OTHER ->
              IF idx[h] < Len(videos(tweet_media[h]))
              THEN /\ Goto(h, "video_probe")
                   /\ idx' = [idx EXCEPT ![h] = @ + 1]
                   /\ ri' = ri
              ELSE NextRef(h) /\ idx' = idx
    /\ IF pc[h] = "video_store" /\ idx[h] < Len(videos(tweet_media[h]))
       THEN /\ log' = [log EXCEPT ![h] = Fold(@, idx[h], Video(h).url)]
            /\ video_size' = [video_size EXCEPT ![h] = 0]
       ELSE UNCHANGED << log, video_size >>
    /\ UNCHANGED << text, tweet_ids, tweet_media, photo_group, open_files,
                    exc, tmp, media_limit, fetched, delivered, base, response,
                    li, unshortened_links, resolution >>

\* process_tweet, line 247: reply_media returned False
reply_no_media(h) ==
    /\ pc[h] = "no_media"
    /\ \E r \in {"ok", "TelegramError"} :
         /\ Logged(h, Entry("reply_text", 0, "no_media", NoUrl, r, <<>>))
         /\ IF r = "ok"
            THEN NextRef(h) /\ exc' = exc
            ELSE Raise(h, r) /\ ri' = ri
    /\ UNCHANGED << text, tweet_ids, tweet_media, photo_group, idx,
                    video_size, open_files, tmp, bot_data, media_limit,
                    fetched, delivered, added, base, response,
                    li, unshortened_links, resolution >>

\* the text of the except clause that takes the exception e
error_reply(e) ==
    IF e = "HTTPError" THEN "http_error"
    ELSE IF e = "APIException" THEN "api_exception"
    ELSE "unexpected"

\* str(exc) in the reply of the except clause, for an APIException (line 60)
exc_message(h) ==
    IF exc[h] = "APIException" THEN scrape_media_result(response[h]).message
    ELSE <<>>

\* process_tweet, lines 248-254: the except clause replies (the entry holds
\* the message of the exception in the place of the media); what this reply
\* raises leaves process_tweet
reply_error(h) ==
    /\ pc[h] = "except"
    /\ \E r \in {"ok", "TelegramError"} :
         /\ Logged(h, Entry("reply_text", 0, error_reply(exc[h]), NoUrl, r,
                            exc_message(h)))
         /\ IF r = "ok"
            THEN NextRef(h) /\ exc' = [exc EXCEPT ![h] = "none"]
            ELSE Goto(h, "crashed") /\ ri' = ri
                 /\ exc' = [exc EXCEPT ![h] = r]
    /\ UNCHANGED << text, tweet_ids, tweet_media, photo_group, idx,
                    video_size, open_files, tmp, bot_data, media_limit,
                    fetched, delivered, added, base, response,
                    li, unshortened_links, resolution >>

Next ==
    \E h \in Handlers :
        \/ process_tweet_start(h)
        \/ extract_resolve(h)
        \/ extract_parse(h)
        \/ reply_no_ids(h)
        \/ scrape_media(h)
        \/ process_tweet_loop(h)
        \/ reply_photos_probe(h)
        \/ reply_photos_send(h)
        \/ reply_gifs_send(h)
        \/ reply_videos_probe(h)
        \/ reply_videos_url(h)
        \/ reply_videos_notice(h)
        \/ reply_videos_open(h)
        \/ reply_videos_download(h)
        \/ reply_videos_upload(h)
        \/ reply_videos_delete(h)
        \/ reply_videos_link(h)
        \/ reply_videos_fallback(h)
        \/ counter_read(h)
        \/ counter_store(h)
        \/ reply_no_media(h)
        \/ reply_error(h)

\* one message handled alone
Spec == Init /\ [][Next]_vars

\* NumHandlers messages handled at the same time (run_async=True, line 213)
SpecAsync == InitAsync /\ [][Next]_vars

\* the steps of extract_tweet_ids, up to the branch of process_tweet on its
\* result
NextExtract ==
    \E h \in Handlers :
        \/ process_tweet_start(h)
        \/ extract_resolve(h)
        \/ extract_parse(h)

\* extract_tweet_ids on any text
SpecExtract == InitExtract /\ [][NextExtract]_vars

\* ------------------------------------------------------------ properties
Final == {"done", "crashed"}

\* the handler is not inside the calls made for the current reference
RefOver(h) == pc[h] \in {"except", "loop", "done", "crashed"}

Last(l) == l[Len(l)]

RECURSIVE SumTo(_, _)
SumTo(f, n) == IF n = 0 THEN 0 ELSE f[n] + SumTo(f, n - 1)

\* the calls of the log made for the video the loop of reply_videos is at
OfVideo(h, e) == IsVideoCall(e) /\ e.item = idx[h]

\* C1: no failure while handling one reference keeps the next ones from
\* being fetched, and the handler does not end with an uncaught error: a
\* handler of a message with references never ends in an exception, and when
\* it has ended the metadata fetch was attempted for every reference, in
\* order.
C1_EveryReferenceIsFetched ==
    \A h \in Handlers :
        tweet_ids[h] # <<>> =>
            /\ pc[h] # "crashed"
            /\ pc[h] \in Final =>
                 fetched[h] = [i \in 1..Len(tweet_ids[h]) |-> i]

\* C2: the counter loses no update when handlers run at the same time: once
\* all handlers have ended, the count is the initial count plus the sum of
\* the increments the handlers performed.
C2_NoLostUpdate ==
    (\A h \in Handlers : pc[h] \in Final) =>
        bot_data.media_downloaded = base + SumTo(added, NumHandlers)

\* C3: every delivered item is counted exactly once: when a handler that ran
\* alone has ended, by any path, the count has grown by the number of items a
\* successful send has carried.  (Stated for a store that holds the statistics
\* entry; without the entry no item is counted at all.)
C3_CounterEqualsDelivered ==
    \A h \in Handlers :
        pc[h] \in Final /\ bot_data.has_stats =>
            bot_data.media_downloaded = base + delivered[h]

\* the handler has made a call with argument a for the video it is at
Did(h, a) == \E k \in 1..Len(log[h]) : OfVideo(h, log[h][k]) /\ log[h][k].arg = a

\* the size request of the video the handler is at has just succeeded
Probed(h) ==
    /\ log[h] # <<>>
    /\ OfVideo(h, Last(log[h]))
    /\ Last(log[h]).arg = "stream"
    /\ Last(log[h]).result = "ok"

\* C4: the tier of a video depends only on the Content-Length read, both
\* limits inclusive: up to MAX_FILESIZE_DOWNLOAD the video is sent by URL,
\* above it and up to MAX_FILESIZE_UPLOAD it is downloaded and uploaded, above
\* that only the link is sent; after the size is read exactly one of the three
\* is entered, and no call of another tier is made for the video.
C4_TierBySize ==
    \A h \in Handlers :
        LET s == video_size[h]
        IN /\ Probed(h) =>
                /\ s <= MAX_FILESIZE_DOWNLOAD => pc[h] = "video_url"
                /\ s > MAX_FILESIZE_DOWNLOAD /\ s <= MAX_FILESIZE_UPLOAD =>
                     pc[h] = "video_notice"
                /\ s > MAX_FILESIZE_UPLOAD => pc[h] = "video_link"
           /\ Did(h, "url") => s <= MAX_FILESIZE_DOWNLOAD
           /\ Did(h, "notice") \/ Did(h, "file_streaming") =>
                s > MAX_FILESIZE_DOWNLOAD /\ s <= MAX_FILESIZE_UPLOAD
           /\ Did(h, "too_large") => s > MAX_FILESIZE_UPLOAD

\* C4 happens: a video of exactly MAX_FILESIZE_DOWNLOAD bytes was sent by URL
C4_Witness ==
    \E h \in Handlers :
        /\ video_size[h] = MAX_FILESIZE_DOWNLOAD
        /\ Did(h, "url")
        /\ Last(log[h]).result = "ok"
        /\ pc[h] = "video_count"

\* positions of the log holding the failed calls of the try body of
\* reply_videos for the current video, and its fallback replies
Failures(h) ==
    { k \in 1..Len(log[h]) :
        /\ OfVideo(h, log[h][k])
        /\ log[h][k].arg # "fallback"
        /\ log[h][k].result # "ok" }
Fallbacks(h) ==
    { k \in 1..Len(log[h]) :
        OfVideo(h, log[h][k]) /\ log[h][k].arg = "fallback" }

\* C5: any error met while delivering a video ends in the fallback: once a
\* call of the delivery has failed and the handler has gone on, exactly one
\* reply with the direct link has been attempted for the video, after the
\* failure, and it is the last call made for the video.
C5_ErrorEndsInFallback ==
    \A h \in Handlers :
        Failures(h) # {} /\ pc[h] # "video_fallback" =>
            /\ Cardinality(Fallbacks(h)) = 1
            /\ \A k \in Fallbacks(h) :
                 /\ \A j \in Failures(h) : j < k
                 /\ \A j \in (k + 1)..Len(log[h]) : ~OfVideo(h, log[h][j])

\* the reply_animation calls made for the current reference
Animations(h) == SelectSeq(log[h], LAMBDA e : e.call = "reply_animation")

C7_BufferReleased ==
    \A h \in Handlers :
        /\ pc[h] \notin {"video_download", "video_upload"} =>
             open_files[h] = 0
        /\ pc[h] \in {"video_download", "video_upload"} => open_files[h] = 1

\* C7 happens: the download raised an error that reply_videos does not catch
C7_Witness ==
    \E h \in Handlers :
        /\ pc[h] = "except"
        /\ Last(log[h]).call = "iter_content"
        /\ Last(log[h]).result = "ChunkedEncodingError"
        /\ open_files[h] = 0

\* C8: the steps of the upload branch run in a fixed order: every call made
\* for a video directly follows the successful call before it in the order
\* size request, notice, open, download, upload (with supports_streaming),
\* delete; and a successful upload is directly followed by the delete.
C8_ReuploadOrder ==
    \A h \in Handlers :
        LET l == log[h]
            After(k, c, a) ==
                /\ k > 1
                /\ OfVideo(h, l[k - 1])
                /\ l[k - 1].call = c
                /\ l[k - 1].arg = a
                /\ l[k - 1].result = "ok"
        IN \A k \in 1..Len(l) :
             OfVideo(h, l[k]) =>
               /\ l[k].arg = "notice" => After(k, "get", "stream")
               /\ l[k].call = "TemporaryFile" =>
                    After(k, "reply_text", "notice")
               /\ l[k].call = "iter_content" => After(k, "TemporaryFile", "")
               /\ l[k].arg = "file_streaming" => After(k, "iter_content", "")
               /\ l[k].call = "delete" =>
                    After(k, "reply_video", "file_streaming")
               /\ l[k].arg = "file_streaming" /\ l[k].result = "ok" =>
                    IF k = Len(l) THEN pc[h] = "video_delete"
                    ELSE l[k + 1].call = "delete" /\ l[k + 1].item = idx[h]

\* C8 happens: the notice was deleted after a successful upload
C8_Witness ==
    \E h \in Handlers :
        /\ log[h] # <<>>
        /\ Last(log[h]).call = "delete"
        /\ Last(log[h]).result = "ok"
        /\ pc[h] = "video_count"

VideoAt ==
    {"video_probe", "video_url", "video_notice", "video_open",
     "video_download", "video_upload", "video_delete", "video_link",
     "video_fallback", "video_count", "video_store"}

\* a step of video delivery was made for the current reference
VideoStep(h) ==
    \E k \in 1..Len(log[h]) :
        IsVideoCall(log[h][k]) \/ log[h][k].call = "video"

\* reply_photos was not called, or it returned without raising
PhotosReturned(h) ==
    \/ photos(tweet_media[h]) = <<>>
    \/ /\ bot_data.has_stats
       /\ \E k \in 1..Len(log[h]) :
            log[h][k].call = "reply_media_group" /\ log[h][k].result = "ok"

\* C9 as claimed: videos are processed exactly when the media list holds a
\* video and no animation: once the handler is through with a reference, a
\* step of video delivery was made for it if and only if its list holds at
\* least one video and no animation.
C9_VideosExactlyWithoutAnimation ==
    \A h \in Handlers :
        RefOver(h) =>
            (VideoStep(h) <=>
               videos(tweet_media[h]) # <<>> /\ gifs(tweet_media[h]) = <<>>)

\* C9 as amended: with an animation in the list no step of video delivery is
\* made; video delivery is made only for a list with a video and no
\* animation, and it is made for every such list whose photo delivery, when
\* it has photos, returned without raising.
C9_VideosOnlyWithoutAnimation ==
    \A h \in Handlers :
        /\ VideoStep(h) \/ pc[h] \in VideoAt =>
             videos(tweet_media[h]) # <<>> /\ gifs(tweet_media[h]) = <<>>
        /\ /\ RefOver(h)
           /\ videos(tweet_media[h]) # <<>>
           /\ gifs(tweet_media[h]) = <<>>
           /\ PhotosReturned(h)
           => VideoStep(h)

\* C9 happens: a list with an animation and a video, the animation was sent
\* and counted, and the handler went on without a step for the video
C9_Witness ==
    \E h \in Handlers :
        /\ pc[h] = "loop"
        /\ gifs(tweet_media[h]) # <<>>
        /\ videos(tweet_media[h]) # <<>>
        /\ Animations(h) # <<>>
        /\ Last(Animations(h)).result = "ok"
        /\ ~VideoStep(h)

\* the quality probes and the grouped sends made for the current reference
Probes(h) == SelectSeq(log[h], LAMBDA e : e.call = "head")
Groups(h) == SelectSeq(log[h], LAMBDA e : e.call = "reply_media_group")

\* C10: the photos of a reference go out as one group: when every probe
\* answered (2xx or not), exactly one grouped send is made; it carries one
\* entry per photo, in input order, the original-quality URL where the probe
\* succeeded and the unchanged URL where it did not; and once the send has
\* succeeded and the handler has gone on, the count has grown by the number
\* of photos (stated for the first reference, where the count started at
\* its initial value).
C10_PhotosGoOutAsOneGroup ==
    \A h \in Handlers :
        LET ph == photos(tweet_media[h])
            n == Len(ph)
            probes == Probes(h)
            groups == Groups(h)
        IN /\ Len(groups) <= 1
           /\ /\ n >= 1
              /\ Len(probes) = n
              /\ \A i \in 1..n : probes[i].result \in {"ok", "HTTPError"}
              /\ pc[h] # "photo_send"
              => Len(groups) = 1
           /\ \A g \in 1..Len(groups) :
                /\ Len(groups[g].media) = n
                /\ \A i \in 1..n :
                     groups[g].media[i] =
                        IF probes[i].result = "ok"
                        THEN [path |-> ph[i].url.path,
                              query |-> "format=jpg&name=orig"]
                        ELSE ph[i].url
           /\ /\ ri[h] = 1
              /\ groups # <<>>
              /\ Last(log[h]).call = "reply_media_group"
              /\ Last(log[h]).result = "ok"
              /\ pc[h] \notin {"photo_count", "photo_store"}
              => bot_data.media_downloaded = base + n

\* the exceptions of scrape_media the fetcher's contract calls FetchError:
\* the HTTPError of raise_for_status and the parse error raised again
FetchError == {"HTTPError", "JSONDecodeError"}

\* the error replies made for the current reference
ErrorReplies(h) ==
    SelectSeq(log[h], LAMBDA e :
        e.call = "reply_text"
        /\ e.arg \in {"http_error", "api_exception", "unexpected"})

\* C11: scrape_media classifies every response: a non-2xx status fails with
\* FetchError; a 2xx status with a JSON body holding media_extended returns
\* that list; a 2xx status with a body that is no JSON fails with an
\* APIException carrying the decoded og:description when the body holds the
\* tag, and with FetchError when it holds none; and process_tweet reports a
\* FetchError with the "HTTP Error" reply and an APIException with the "API
\* Exception" reply and its message.
C11_FetcherClassifies ==
    \A h \in Handlers :
        response[h] # NoResponse =>
            LET r == response[h]
                got == log[h][1].result
                is2xx == r.status >= 200 /\ r.status < 300
                replies == ErrorReplies(h)
            IN /\ ~is2xx => got \in FetchError
               /\ is2xx /\ r.body.kind = "json" /\ r.body.has_key =>
                    got = "ok" /\ tweet_media[h] = r.body.media
               /\ is2xx /\ r.body.kind = "html" /\ r.body.tag # <<>> =>
                    got = "APIException"
               /\ is2xx /\ r.body.kind = "html" /\ r.body.tag = <<>> =>
                    got \in FetchError
               /\ \A k \in 1..Len(replies) :
                    /\ got \in FetchError => replies[k].arg = "http_error"
                    /\ got = "APIException" =>
                         /\ replies[k].arg = "api_exception"
                         /\ Len(replies[k].media) = Len(r.body.tag) + 1
                         /\ \A i \in 1..Len(r.body.tag) :
                              replies[k].media[i + 1] =
                                 IF r.body.tag[i] = "&quot;" THEN "\""
                                 ELSE r.body.tag[i]

\* extract_tweet_ids has returned
Extracted(h) == pc[h] \notin {"idle", "start", "resolve"}

\* the destinations of the t.co links that resolved, in order
Resolved(h) == SelectSeq(resolution[h], LAMBDA d : d # Unresolved)

\* the text extended by the destinations of the links that resolved
Extended(h) == text[h] \o Resolved(h)

\* position of the first link to the post id in s
FirstAt(s, id) ==
    CHOOSE k \in 1..Len(s) :
        /\ IsLink(s[k]) /\ s[k].id = id
        /\ \A j \in 1..(k - 1) : ~(IsLink(s[j]) /\ s[j].id = id)

\* C12: extract_tweet_ids returns each id once, in order of first
\* occurrence: for the text extended by the resolved destinations, the
\* result holds no id twice, holds the id of every matching link and no
\* other, orders the ids by their first occurrence (whatever host of the
\* two the link names), and is the none signal exactly when no link
\* matches.
C12_EachIdOnceInOrder ==
    \A h \in Handlers :
        Extracted(h) =>
            LET s == Extended(h)
                r == tweet_ids[h]
            IN /\ \A i, j \in 1..Len(r) : i # j => r[i] # r[j]
               /\ \A k \in 1..Len(s) :
                    IsLink(s[k]) => \E i \in 1..Len(r) : r[i] = s[k].id
               /\ \A i \in 1..Len(r) :
                    \E k \in 1..Len(s) : IsLink(s[k]) /\ s[k].id = r[i]
               /\ \A i, j \in 1..Len(r) :
                    i < j => FirstAt(s, r[i]) < FirstAt(s, r[j])
               /\ r = <<>> <=> ~(\E k \in 1..Len(s) : IsLink(s[k]))
               /\ r = <<>> <=> pc[h] = "no_ids"

\* C12 happens: the same post under twitter.com and later under x.com, with
\* another post between the two, gives the first post before the other
C12_Witness ==
    \E h \in Handlers :
        /\ Extracted(h)
        /\ text[h] = << Link("twitter.com", 1), Link("x.com", 2),
                        Link("x.com", 1) >>
        /\ tweet_ids[h] = <<1, 2>>

\* the t.co links of the message
ShortLinks(h) == SelectSeq(text[h], LAMBDA w : w.kind = "short")

\* the ids of the matching links of s, as a set
IdSet(s) == { s[k].id : k \in { j \in 1..Len(s) : IsLink(s[j]) } }

\* C13: a t.co link that cannot be resolved is not fatal to the extraction:
\* whatever links fail, every t.co link of the text is requested once, in
\* order, the extraction returns, and the result holds the ids of the text
\* first, then those of the destinations of the links that resolved and no
\* other id.
C13_FailedResolutionIsSkipped ==
    \A h \in Handlers :
        /\ Len(resolution[h]) <= Len(ShortLinks(h))
        /\ pc[h] = "resolve" => li[h] = Len(resolution[h]) + 1
        /\ Extracted(h) =>
             LET r == tweet_ids[h]
                 own == IdSet(text[h])
                 n == Cardinality(own)
             IN /\ Len(resolution[h]) = Len(ShortLinks(h))
                /\ pc[h] # "crashed"
                /\ { r[i] : i \in 1..Len(r) } = own \cup IdSet(Resolved(h))
                /\ Len(r) >= n
                /\ { r[i] : i \in 1..n } = own
                /\ \A i, j \in (n + 1)..Len(r) :
                     i < j => FirstAt(Resolved(h), r[i])
                                < FirstAt(Resolved(h), r[j])

\* C13 happens: of three t.co links the second failed, the first and the
\* third resolved to two different posts
C13_Witness ==
    \E h \in Handlers :
        /\ Extracted(h)
        /\ Len(resolution[h]) = 3
        /\ resolution[h][1] = Link("x.com", 2)
        /\ resolution[h][2] = Unresolved
        /\ resolution[h][3] = Link("twitter.com", 1)
        /\ tweet_ids[h] = <<2, 1>>

\* the metadata fetch of the current reference has returned a list
FetchReturned(h) ==
    log[h] # <<>> /\ log[h][1].call = "get" /\ log[h][1].result = "ok"

\* the list holds no item of a kind that is delivered
NoSupportedItem(m) ==
    \A i \in 1..Len(m) : m[i].type \notin {"image", "gif", "video"}

\* the "No supported media found." replies made for the current reference
NoMediaReplies(h) ==
    SelectSeq(log[h], LAMBDA e : e.call = "reply_text" /\ e.arg = "no_media")

\* the calls that deliver an item: a grouped send, an animation, a video, a
\* link of a video, and the probes and the download made for them
IsDelivery(e) ==
    \/ e.call \in {"head", "reply_media_group", "reply_animation", "video"}
    \/ IsVideoCall(e)

\* C14: "No supported media found." is replied exactly for the references
\* without supported media: the reply is made only after a fetch that
\* returned a list that is empty or holds no image, gif or video, and it is
\* made once for every such list; for such a reference no call of a delivery
\* is made and the handler never comes to one of the counter's increments
\* (at the first reference: nothing was delivered, nothing added, the count
\* is the initial one).
C14_NoMediaReplyExactly ==
    \A h \in Handlers :
        /\ NoMediaReplies(h) # <<>> =>
             FetchReturned(h) /\ NoSupportedItem(tweet_media[h])
        /\ FetchReturned(h) /\ NoSupportedItem(tweet_media[h]) =>
             /\ pc[h] # "no_media" <=> Len(NoMediaReplies(h)) = 1
             /\ pc[h] = "no_media" => NoMediaReplies(h) = <<>>
             /\ \A k \in 1..Len(log[h]) : ~IsDelivery(log[h][k])
             /\ pc[h] \in {"no_media", "except", "loop", "done", "crashed"}
             /\ ri[h] = 1 =>
                  /\ delivered[h] = 0
                  /\ added[h] = 0
                  /\ bot_data.media_downloaded = base

\* C14 happens: a list that holds only an item of another kind was answered
\* with the reply, and the handler went on
C14_Witness ==
    \E h \in Handlers :
        /\ FetchReturned(h)
        /\ Len(tweet_media[h]) = 1
        /\ tweet_media[h][1].type = "audio"
        /\ Len(NoMediaReplies(h)) = 1
        /\ NoMediaReplies(h)[1].result = "ok"
        /\ pc[h] = "loop"

\* the calls of the log made for the video the handler is at, in order
VideoCalls(h) == SelectSeq(log[h], LAMBDA e : OfVideo(h, e))

\* C15: a video larger than MAX_FILESIZE_UPLOAD is answered by a link only:
\* after its size was read, the call made for it is the text reply with the
\* URL of the video as the service gave it; no notice is posted, no temporary
\* file opened, the body is not read and no reply_video (by URL or by upload)
\* is made for it; when that reply succeeds it is the last call for the
\* video, and the handler goes on to count it.
C15_LinkOnlyAboveUploadLimit ==
    \A h \in Handlers :
        video_size[h] > MAX_FILESIZE_UPLOAD =>
            LET c == VideoCalls(h)
            IN /\ open_files[h] = 0
               /\ \A k \in 1..Len(c) :
                    /\ c[k].call \notin {"TemporaryFile", "iter_content",
                                         "delete", "reply_video"}
                    /\ c[k].arg \notin {"notice", "url", "file_streaming"}
               /\ Len(c) >= 1 /\ c[1].call = "get" /\ c[1].result = "ok"
               /\ pc[h] = "video_link" <=> Len(c) = 1
               /\ Len(c) >= 2 =>
                    /\ c[2].call = "reply_text"
                    /\ c[2].arg = "too_large"
                    /\ c[2].url = videos(tweet_media[h])[idx[h]].url
                    /\ c[2].result = "ok" =>
                         /\ Len(c) = 2
                         /\ pc[h] \in {"video_count", "video_store", "except",
                                       "loop", "done", "crashed"}

\* C15 happens: a video of MAX_FILESIZE_UPLOAD + 1 bytes got the link reply
\* and nothing else
C15_Witness ==
    \E h \in Handlers :
        /\ video_size[h] = MAX_FILESIZE_UPLOAD + 1
        /\ Len(VideoCalls(h)) = 2
        /\ VideoCalls(h)[2].arg = "too_large"
        /\ VideoCalls(h)[2].result = "ok"
        /\ pc[h] = "video_count"

\* every call made so far for the current reference (the fetch, the probes,
\* the sends) has succeeded
AllSucceeded(h) ==
    \A k \in 1..Len(log[h]) :
        log[h][k].arg \notin {"http_error", "api_exception", "unexpected"}
            => log[h][k].result = "ok"

\* C16: a delivery in which every call succeeds gets no error reply, whatever
\* store the process started with: while the fetch, the probes and the sends
\* of a reference have all succeeded the handler is not in an except clause
\* of process_tweet and has made no error reply for it, and once it is
\* through with the (first) reference the count has grown by the number of
\* items delivered.
C16_SuccessGetsNoErrorReply ==
    \A h \in Handlers :
        FetchReturned(h) /\ AllSucceeded(h) =>
            /\ ErrorReplies(h) = <<>>
            /\ pc[h] \notin {"except", "crashed"}
            /\ ri[h] = 1 /\ pc[h] \in {"loop", "done"} =>
                 bot_data.media_downloaded = base + delivered[h]

GifAt == {"gif_send", "gif_count", "gif_store"}

\* a call of the delivery of an animation or a video
AfterPhotos(e) ==
    e.call \in {"reply_animation", "video"} \/ IsVideoCall(e)

\* positions of the log with a grouped send that succeeded, or failed
GroupSent(h) ==
    { k \in 1..Len(log[h]) :
        log[h][k].call = "reply_media_group" /\ log[h][k].result = "ok" }
GroupFailed(h) ==
    { k \in 1..Len(log[h]) :
        log[h][k].call = "reply_media_group" /\ log[h][k].result # "ok" }

\* C17: within a reference photos come first, and a failed photo group stops
\* the rest: the handler is at, or has made a call of, the delivery of an
\* animation or a video only when the list has no photo or after the grouped
\* send has returned successfully; after a grouped send that failed no such
\* call is made, and exactly one error reply is made for the reference.
C17_PhotosFirstAndFailureStops ==
    \A h \in Handlers :
        /\ pc[h] \in GifAt \cup VideoAt =>
             photos(tweet_media[h]) = <<>> \/ GroupSent(h) # {}
        /\ \A k \in 1..Len(log[h]) :
             AfterPhotos(log[h][k]) =>
                \/ photos(tweet_media[h]) = <<>>
                \/ \E j \in GroupSent(h) : j < k
        /\ GroupFailed(h) # {} =>
             /\ \A k \in 1..Len(log[h]) : ~AfterPhotos(log[h][k])
             /\ pc[h] \in {"except", "loop", "done", "crashed"}
             /\ pc[h] = "except" <=> ErrorReplies(h) = <<>>
             /\ pc[h] # "except" => Len(ErrorReplies(h)) = 1

\* C17 happens: a list with a photo and a video, the grouped send failed, one
\* error reply was made and the handler went on without a step for the video
C17_Witness ==
    \E h \in Handlers :
        /\ photos(tweet_media[h]) # <<>>
        /\ videos(tweet_media[h]) # <<>>
        /\ GroupFailed(h) # {}
        /\ Len(ErrorReplies(h)) = 1
        /\ ErrorReplies(h)[1].result = "ok"
        /\ pc[h] = "loop"

\* the fallback reply of the video the handler is at was made and succeeded
FallbackSent(h) ==
    \E k \in Fallbacks(h) : log[h][k].result = "ok"

\* the videos of the current reference the loop of reply_videos is through
\* with, as the log keeps them
Finished(h) == SelectSeq(log[h], LAMBDA e : e.call = "video")

\* C18: a video that ended in the link fallback does not keep the following
\* videos from being delivered, and is counted: once the fallback reply of a
\* video has succeeded the handler counts the video and goes on (it is never
\* in an except clause of process_tweet for it); the loop takes the videos in
\* input order, the next one directly after a video that ended in the
\* fallback; and (at the first reference) between two videos and after the
\* last the count has grown by one for every video the loop is through with.
C18_FallbackDoesNotBlock ==
    \A h \in Handlers :
        LET v == videos(tweet_media[h])
            f == Finished(h)
        IN /\ FallbackSent(h) =>
                \/ pc[h] \in {"video_count", "video_store"}
                \/ pc[h] \in {"loop", "done"} /\ idx[h] = Len(v)
           /\ \A k \in 1..Len(f) :
                /\ f[k].item = k
                /\ f[k].url = v[k].url
                /\ idx[h] > k
           /\ pc[h] \in VideoAt => Len(f) = idx[h] - 1
           /\ ri[h] = 1 /\ pc[h] = "video_probe" =>
                bot_data.media_downloaded
                    = base + Len(photo_group[h]) + idx[h] - 1
           /\ ri[h] = 1 /\ FallbackSent(h) /\ pc[h] \in {"loop", "done"} =>
                bot_data.media_downloaded
                    = base + Len(photo_group[h]) + idx[h]

\* the "No valid tweet IDs found." replies of the handler
NoIdsReplies(h) ==
    SelectSeq(log[h], LAMBDA e : e.call = "reply_text" /\ e.arg = "no_ids")

\* C19: a message without a valid reference is answered once and nothing
\* else happens: when extract_tweet_ids returned None, the handler makes the
\* "No valid tweet IDs found." reply exactly once and ends; it makes no
\* metadata fetch and no other call, delivers nothing and leaves the count as
\* it was; when ids were returned, that reply is never made.
C19_NoReferenceOneReply ==
    \A h \in Handlers :
        Extracted(h) =>
            /\ tweet_ids[h] = <<>> =>
                 /\ pc[h] \in {"no_ids", "done", "crashed"}
                 /\ pc[h] = "no_ids" <=> log[h] = <<>>
                 /\ pc[h] # "no_ids" =>
                      Len(log[h]) = 1 /\ Len(NoIdsReplies(h)) = 1
                 /\ pc[h] = "done" => log[h][1].result = "ok"
                 /\ fetched[h] = <<>>
                 /\ response[h] = NoResponse
                 /\ tweet_media[h] = <<>>
                 /\ delivered[h] = 0
                 /\ added[h] = 0
                 /\ bot_data.media_downloaded = base
            /\ tweet_ids[h] # <<>> =>
                 pc[h] # "no_ids" /\ NoIdsReplies(h) = <<>>

\* C19 happens: a message whose only link is a t.co link that leads to no
\* post was answered with the reply, and the handler has ended
C19_Witness ==
    \E h \in Handlers :
        /\ text[h] = <<ShortLink>>
        /\ resolution[h] = <<Word>>
        /\ tweet_ids[h] = <<>>
        /\ Len(NoIdsReplies(h)) = 1
        /\ NoIdsReplies(h)[1].result = "ok"
        /\ pc[h] = "done"

====
